---- MODULE Spec2Model ----
(***************************************************************************)
(* Transmission-DH: the RPC client (client.ts), the removal handler        *)
(* (handler.ts) and the entry point (index.ts) as one state machine.       *)
(*                                                                         *)
(* Representation of values                                                *)
(*   - a string is a sequence of symbols (a symbol is one character, or    *)
(*     the atom "http:" standing for the scheme of a URL);                 *)
(*   - a JSON value that may be null or absent is a sequence of length 0   *)
(*     (null) or 1 (the value);                                            *)
(*   - percentDone at the source is a fraction counted in hundredths       *)
(*     (0..100 for 0.00..1.00); the hydrated percentDone is that number    *)
(*     times 100, so 100 percent is Percent(100);                          *)
(*   - ageHours is kept as the numerator of the division by 3600, so a     *)
(*     threshold of h hours is Hours(h);                                   *)
(*   - an error is its message, a sequence of text fragments.              *)
(***************************************************************************)
EXTENDS Integers, Sequences, FiniteSets, TLC

\* ------------------------------------------------------------------------
\* Bounds of the model
\* ------------------------------------------------------------------------
MaxTorrents == 2

\* the number of runs of Handler.run that can be in flight at once
MaxRuns == 2

\* ------------------------------------------------------------------------
\* Program constants
\* ------------------------------------------------------------------------
MaxAttempts == 30

MaxSessionRetries == 2

SecondsPerHour == 3600

RatioSentinel == -1

\* the slots of the runs in flight: the run at startup takes slot 1, a
\* scheduled run the first slot whose run is over
Runs == 1..MaxRuns

None == <<>>

Some(v) == <<v>>

\* x || d for a nullable number: null and 0 are falsy
OrNum(x, d) == IF x = None \/ x[1] = 0 THEN d ELSE x[1]

\* x || d for a nullable string or list: null and "" are falsy for strings;
\* for lists only null is falsy
OrStr(x, d) == IF x = None \/ x[1] = <<>> THEN d ELSE x[1]

OrList(x, d) == IF x = None THEN d ELSE x[1]

Hours(h) == h * SecondsPerHour

Percent(p) == p * 100

\* ------------------------------------------------------------------------
\* Strings
\* ------------------------------------------------------------------------
LowerChar(c) ==
  CASE c = "T" -> "t"
    [] c = "V" -> "v"
    [] c = "B" -> "b"
    [] c = "G" -> "g"
    [] OTHER -> c

toLowerCase(s) == [i \in DOMAIN s |-> LowerChar(s[i])]

\* String.prototype.includes
includes(s, sub) ==
  \E i \in 0..(Len(s) - Len(sub)) : SubSeq(s, i + 1, i + Len(sub)) = sub

\* Array.prototype.includes
arrayIncludes(arr, x) == \E i \in DOMAIN arr : arr[i] = x

RECURSIVE stripTrailingSlashes(_)
stripTrailingSlashes(p) ==
  IF p # <<>> /\ p[Len(p)] = "/"
  THEN stripTrailingSlashes(SubSeq(p, 1, Len(p) - 1))
  ELSE p

RECURSIVE lastSegment(_)
lastSegment(p) ==
  IF p = <<>> THEN <<>>
  ELSE IF p[Len(p)] = "/" THEN <<>>
  ELSE Append(lastSegment(SubSeq(p, 1, Len(p) - 1)), p[Len(p)])

\* path.basename (posix)
basename(p) == lastSegment(stripTrailingSlashes(p))

\* index of the first occurrence of symbol c in s at or after position i,
\* Len(s) + 1 when there is none
RECURSIVE indexFrom(_, _, _)
indexFrom(s, c, i) ==
  IF i > Len(s) THEN Len(s) + 1
  ELSE IF s[i] = c THEN i
  ELSE indexFrom(s, c, i + 1)

Min2(a, b) == IF a <= b THEN a ELSE b

\* new URL(url): the parse succeeds for  http: // host [: port] [/ path]
\* with a non-empty host, and throws a TypeError otherwise.  hostname is
\* the host without port and path, lower-cased by the parser.
parseURL(url) ==
  IF Len(url) >= 4 /\ url[1] = "http:" /\ url[2] = "/" /\ url[3] = "/"
  THEN LET rest == SubSeq(url, 4, Len(url))
           stop == Min2(indexFrom(rest, "/", 1), indexFrom(rest, ":", 1))
           host == SubSeq(rest, 1, stop - 1)
       IN IF host = <<>> THEN [ok |-> FALSE, hostname |-> <<>>]
          ELSE [ok |-> TRUE, hostname |-> toLowerCase(host)]
  ELSE [ok |-> FALSE, hostname |-> <<>>]

\* ------------------------------------------------------------------------
\* Configuration (config.ts, type Config): the resolved values the handler
\* and the client read.
\* ------------------------------------------------------------------------
sTv == <<"t", "v">>

sTvUpper == <<"T", "V">>

sOther == <<"o">>

sBad == <<"b">>

sCron == <<"*", "/", "5">>

Configs ==
  [allowedLabels : {<<>>, <<sTv>>},
   excludedTrackers : {<<>>, <<sBad>>},
   maxRatio : {-1, 2},
   deadRetentionHours : {0, 1, 2},
   maxAgeHours : {1, 2},
   dryRun : BOOLEAN,
   schedule : {None, Some(sCron)}]

\* stands for the Config of a process in which loadConfig has thrown
NoConfig ==
  [allowedLabels |-> <<>>, excludedTrackers |-> <<>>, maxRatio |-> 0,
   deadRetentionHours |-> 0, maxAgeHours |-> 0, dryRun |-> FALSE,
   schedule |-> None]

\* ------------------------------------------------------------------------
\* config.ts, loadConfig: from process.env to the Config.  A variable of the
\* environment is None when unset and Some(string) otherwise.
\* ------------------------------------------------------------------------
\* value.split(sep) from position i on, cur being the piece read so far
RECURSIVE split(_, _, _, _)
split(value, sep, i, cur) ==
  IF i > Len(value) THEN <<cur>>
  ELSE IF value[i] = sep THEN <<cur>> \o split(value, sep, i + 1, <<>>)
  ELSE split(value, sep, i + 1, Append(cur, value[i]))

RECURSIVE trimStart(_)
trimStart(s) ==
  IF s # <<>> /\ Head(s) = " " THEN trimStart(Tail(s)) ELSE s

RECURSIVE trimEnd(_)
trimEnd(s) ==
  IF s # <<>> /\ s[Len(s)] = " " THEN trimEnd(SubSeq(s, 1, Len(s) - 1)) ELSE s

trim(s) == trimEnd(trimStart(s))

\* value.split(",").map(s => s.trim().toLowerCase()).filter(Boolean)
parseList(value) ==
  LET pieces == split(value, ",", 1, <<>>)
      mapped == [i \in DOMAIN pieces |-> toLowerCase(trim(pieces[i]))]
  IN SelectSeq(mapped, LAMBDA x : x # <<>>)

DigitValue(c) ==
  CASE c = "0" -> 0 [] c = "1" -> 1 [] c = "2" -> 2 [] c = "3" -> 3
    [] c = "4" -> 4 [] c = "5" -> 5 [] c = "6" -> 6 [] c = "7" -> 7
    [] c = "8" -> 8 [] c = "9" -> 9

RECURSIVE digitsValue(_, _)
digitsValue(s, acc) ==
  IF s = <<>> THEN acc ELSE digitsValue(Tail(s), acc * 10 + DigitValue(Head(s)))

\* +value for a decimal integer numeral with an optional sign, and for the
\* empty string, which is 0
toNumber(s) ==
  IF s # <<>> /\ Head(s) = "-" THEN 0 - digitsValue(Tail(s), 0)
  ELSE digitsValue(s, 0)

\* parseAuth throws when the value holds no colon
parseAuthThrows(value) == indexFrom(value, ":", 1) > Len(value)

sTrue == <<"t", "r", "u", "e">>

loadConfig(e) ==
  IF \/ (e.TRANSMISSION_AUTH # None /\ e.TRANSMISSION_AUTH[1] # <<>>
           /\ parseAuthThrows(e.TRANSMISSION_AUTH[1]))
     \/ e.ALLOWED_LABELS = None
     \/ e.EXCLUDED_TRACKERS = None
  THEN [ok |-> FALSE, config |-> NoConfig]
  ELSE [ok |-> TRUE,
        config |->
          [allowedLabels |-> parseList(e.ALLOWED_LABELS[1]),
           excludedTrackers |-> parseList(e.EXCLUDED_TRACKERS[1]),
           maxRatio |-> toNumber(e.MAX_RATIO[1]),
           deadRetentionHours |-> toNumber(e.DEAD_RETENTION_HOURS[1]),
           maxAgeHours |-> toNumber(e.MAX_AGE_HOURS[1]),
           dryRun |-> e.DRY_RUN \in {Some(sTrue), Some(<<"1">>)},
           schedule |-> IF e.SCHEDULE = None \/ e.SCHEDULE[1] = <<>> THEN None
                        ELSE e.SCHEDULE]]

\* index.ts up to the async function: loadConfig, the banner, which reads
\* config.transmissionUrl, and the constructor of the client, which parses it
startupCompletes(e) ==
  /\ loadConfig(e).ok
  /\ e.TRANSMISSION_URL # None
  /\ parseURL(e.TRANSMISSION_URL[1]).ok

\* ------------------------------------------------------------------------
\* What the daemon can answer to torrent-get: JSON torrents whose fields
\* may be null.  Ratios are whole numbers, ages lie around the thresholds.
\* ------------------------------------------------------------------------
Nows == {Hours(100)}

AgedFrom(now, secs) == Some(now - secs)

dirTv == <<"/", "d", "/", "t", "v">>

urlGood == <<"http:", "/", "/", "g", "/", "a">>

urlBadHost == <<"http:", "/", "/", "g", "B", ":", "a", "/", "a">>

\* the token lies in the port and in the path
urlBadPath == <<"http:", "/", "/", "g", ":", "b", "/", "b">>

urlMalformed == <<"b">>

Tracker(a) == [announce |-> a]

J(name, pct, ratio, added, dir, labels, trackers) ==
  [name |-> name, percentDone |-> pct, uploadRatio |-> ratio,
   addedDate |-> added, downloadDir |-> dir, labels |-> labels,
   trackers |-> trackers, error |-> None, errorString |-> None]

TorrentProfiles ==
  LET now == Hours(100)
      nm == Some(<<"a">>)
      good == Some(<<Tracker(Some(urlGood))>>)
  IN { \* complete, ratio 2, younger than every threshold: ratio rule only
       J(nm, Some(100), Some(2), AgedFrom(now, 3599), None, Some(<<sTv>>), good),
       \* incomplete, ratio undefined, exactly one hour old, no tracker
       J(nm, Some(50), Some(RatioSentinel), AgedFrom(now, 3600), None,
         Some(<<sTv>>), None),
       \* complete, ratio absent, exactly two hours old, label from directory
       J(nm, Some(100), None, AgedFrom(now, 7200), Some(dirTv), Some(<<>>), good),
       \* matches every rule, upper-case label, tracker host contains the token
       J(nm, None, Some(2), None, None, Some(<<sTvUpper>>),
         Some(<<Tracker(Some(urlGood)), Tracker(Some(urlBadHost))>>)),
       \* matches every rule, but its first label is not allowed
       J(nm, Some(0), Some(3), AgedFrom(now, 7200), Some(dirTv),
         Some(<<sOther, sTv>>), good),
       \* allowed label, a tracker without announce URL
       J(nm, Some(50), Some(1), AgedFrom(now, 7200), None, Some(<<sTv>>),
         Some(<<Tracker(None)>>)),
       \* allowed label, no name
       J(None, Some(100), Some(2), AgedFrom(now, 3600), None, Some(<<sTv>>), good),
       \* matches no rule: complete, ratio undefined, young
       J(nm, Some(100), Some(RatioSentinel), AgedFrom(now, 3599), None,
         Some(<<sTv>>), good),
       \* excluded by its first tracker, the second URL is malformed
       J(nm, Some(50), Some(RatioSentinel), AgedFrom(now, 7199), None,
         Some(<<sTv>>),
         Some(<<Tracker(Some(urlBadHost)), Tracker(Some(urlMalformed))>>)),
       \* incomplete, just under two hours, token only in the tracker path
       J(nm, Some(50), Some(1), AgedFrom(now, 7199), Some(dirTv), None,
         Some(<<Tracker(Some(urlBadPath))>>)),
       \* complete, ratio undefined, no date of addition: the ttl rule only
       J(nm, Some(100), Some(RatioSentinel), None, None, Some(<<sTv>>), good) }

WithId(prof, i) ==
  [id |-> i, name |-> prof.name, percentDone |-> prof.percentDone,
   uploadRatio |-> prof.uploadRatio, addedDate |-> prof.addedDate,
   downloadDir |-> prof.downloadDir, labels |-> prof.labels,
   trackers |-> prof.trackers, error |-> prof.error,
   errorString |-> prof.errorString]

\* the torrent lists a daemon can hold: ids are unique per daemon
ListsOver(profiles) ==
  UNION { { [i \in 1..n |-> WithId(f[i], i)] : f \in [1..n -> profiles] }
          : n \in 0..MaxTorrents }

DaemonLists == ListsOver(TorrentProfiles)

\* the lists answered on the wire in the specification of the whole program:
\* a torrent that matches the ratio rule and one that matches no rule
WireProfiles ==
  { p \in TorrentProfiles :
      /\ p.name # None
      /\ p.percentDone = Some(100)
      /\ p.labels = Some(<<sTv>>)
      /\ p.addedDate = AgedFrom(Hours(100), 3599) }

WireLists == ListsOver(WireProfiles)

\* ------------------------------------------------------------------------
\* The environments the process is started in.  The numeric settings are
\* decimal integers.
\* ------------------------------------------------------------------------
Env(url, auth, labels, trackers, ratio, dead, age, dry, schedule) ==
  [TRANSMISSION_URL |-> url, TRANSMISSION_AUTH |-> auth,
   ALLOWED_LABELS |-> labels, EXCLUDED_TRACKERS |-> trackers,
   MAX_RATIO |-> ratio, DEAD_RETENTION_HOURS |-> dead, MAX_AGE_HOURS |-> age,
   DRY_RUN |-> dry, SCHEDULE |-> schedule]

\* the one-shot environments: every combination of the settings the handler
\* reads, no schedule
Envs ==
  { Env(Some(urlGood), None, labels, trackers, ratio, dead, age, dry, None) :
      labels \in {Some(<<>>), Some(<<" ", "T", "v", ",", " ">>)},
      trackers \in {Some(<<>>), Some(<<"B">>)},
      ratio \in {Some(<<"-", "1">>), Some(<<"2">>)},
      dead \in {Some(<<"1">>), Some(<<"2">>)},
      age \in {Some(<<"1">>), Some(<<"2">>)},
      dry \in {None, Some(sTrue)} }

\* environments around one valid scheduled setting: each differs from it in
\* one variable
ScheduledEnvs ==
  LET url == Some(urlGood)
      tv == Some(sTv)
      no == Some(<<>>)
      two == Some(<<"2">>)
      one == Some(<<"1">>)
      cron == Some(sCron)
  IN { Env(url, None, tv, no, two, one, one, None, cron),
       Env(url, Some(<<"u", ":", "p">>), tv, no, two, one, one, Some(sTrue), None),
       Env(url, None, tv, no, two, one, one, None, None),
       Env(url, None, tv, no, two, one, one, None, Some(<<>>)),
       Env(Some(urlMalformed), None, tv, no, two, one, one, None, cron),
       Env(None, None, tv, no, two, one, one, None, cron),
       Env(url, Some(<<"u", "p">>), tv, no, two, one, one, None, cron),
       Env(url, None, None, no, two, one, one, None, cron),
       Env(url, None, tv, no, Some(<<"-", "1">>), one, one, None, None),
       Env(url, None, tv, no, two, Some(<<"0">>), one, None, None) }

\* ------------------------------------------------------------------------
\* client.ts, getTorrents: the mapping of a JSON torrent to a RawTorrent.
\* id and name are copied, every other field gets a default.  Of a tracker
\* only announce is read later on.
\* ------------------------------------------------------------------------
\* variant: a torrent without date of addition counts as added just now
toRawTorrentAddedNow(t) ==
  [id |-> t.id,
   name |-> t.name,
   percentDone |-> OrNum(t.percentDone, 0),
   uploadRatio |-> OrNum(t.uploadRatio, 0),
   addedDate |-> OrNum(t.addedDate, Hours(100)),
   downloadDir |-> OrStr(t.downloadDir, <<>>),
   labels |-> OrList(t.labels, <<>>),
   error |-> OrNum(t.error, 0),
   errorString |-> OrStr(t.errorString, <<>>),
   trackers |-> LET trs == OrList(t.trackers, <<>>)
                IN [i \in DOMAIN trs |-> [announce |-> OrStr(trs[i].announce, <<>>)]]]

toRawTorrent(t) ==
  [id |-> t.id,
   name |-> t.name,
   percentDone |-> OrNum(t.percentDone, 0),
   uploadRatio |-> OrNum(t.uploadRatio, 0),
   addedDate |-> OrNum(t.addedDate, 0),
   downloadDir |-> OrStr(t.downloadDir, <<>>),
   labels |-> OrList(t.labels, <<>>),
   error |-> OrNum(t.error, 0),
   errorString |-> OrStr(t.errorString, <<>>),
   trackers |-> LET trs == OrList(t.trackers, <<>>)
                IN [i \in DOMAIN trs |-> [announce |-> OrStr(trs[i].announce, <<>>)]]]

toRawTorrents(list) == [i \in DOMAIN list |-> toRawTorrent(list[i])]

\* ------------------------------------------------------------------------
\* handler.ts
\* ------------------------------------------------------------------------
\* variant: the label is the last entry of the label list
hydrateLastLabel(raw, nowSeconds) ==
  [id |-> raw.id,
   name |-> raw.name,
   percentDone |-> raw.percentDone * 100,
   uploadRatio |-> raw.uploadRatio,
   ageHours |-> nowSeconds - raw.addedDate,
   label |-> IF Len(raw.labels) > 0 THEN raw.labels[Len(raw.labels)]
             ELSE basename(raw.downloadDir),
   downloadDir |-> raw.downloadDir,
   trackerUrls |-> [i \in DOMAIN raw.trackers |-> raw.trackers[i].announce],
   error |-> raw.error,
   errorString |-> raw.errorString]

hydrate(raw, nowSeconds) ==
  [id |-> raw.id,
   name |-> raw.name,
   percentDone |-> raw.percentDone * 100,
   uploadRatio |-> raw.uploadRatio,
   ageHours |-> nowSeconds - raw.addedDate,
   label |-> IF Len(raw.labels) > 0 THEN raw.labels[1]
             ELSE basename(raw.downloadDir),
   downloadDir |-> raw.downloadDir,
   trackerUrls |-> [i \in DOMAIN raw.trackers |-> raw.trackers[i].announce],
   error |-> raw.error,
   errorString |-> raw.errorString]

\* variant: an empty allow-list lets every label pass
isAllowedLabelOpen(cfg, torrent) ==
  Len(cfg.allowedLabels) = 0
    \/ arrayIncludes(cfg.allowedLabels, toLowerCase(torrent.label))

isAllowedLabel(cfg, torrent) ==
  arrayIncludes(cfg.allowedLabels, toLowerCase(torrent.label))

\* the loop of hasExcludedTracker from the i-th URL on: "true", "false", or
\* "throw" when new URL(url) raises
\* variant: the host must equal a token instead of containing it
RECURSIVE excludedFromExact(_, _, _)
excludedFromExact(cfg, urls, i) ==
  IF i > Len(urls) THEN "false"
  ELSE LET u == parseURL(urls[i])
       IN IF ~u.ok THEN "throw"
          ELSE IF \E k \in DOMAIN cfg.excludedTrackers :
                    toLowerCase(u.hostname) = cfg.excludedTrackers[k]
               THEN "true"
               ELSE excludedFromExact(cfg, urls, i + 1)

\* variant: the token is looked for in the whole URL
RECURSIVE excludedFromWholeUrl(_, _, _)
excludedFromWholeUrl(cfg, urls, i) ==
  IF i > Len(urls) THEN "false"
  ELSE LET u == parseURL(urls[i])
       IN IF ~u.ok THEN "throw"
          ELSE IF \E k \in DOMAIN cfg.excludedTrackers :
                    includes(toLowerCase(urls[i]), cfg.excludedTrackers[k])
               THEN "true"
               ELSE excludedFromWholeUrl(cfg, urls, i + 1)

RECURSIVE excludedFrom(_, _, _)
excludedFrom(cfg, urls, i) ==
  IF i > Len(urls) THEN "false"
  ELSE LET u == parseURL(urls[i])
       IN IF ~u.ok THEN "throw"
          ELSE IF \E k \in DOMAIN cfg.excludedTrackers :
                    includes(toLowerCase(u.hostname), cfg.excludedTrackers[k])
               THEN "true"
               ELSE excludedFrom(cfg, urls, i + 1)

hasExcludedTracker(cfg, torrent) ==
  IF Len(cfg.excludedTrackers) = 0 THEN "false"
  ELSE excludedFrom(cfg, torrent.trackerUrls, 1)

\* variant: no test of the sentinel before the comparison
checkRatioRuleNoSentinel(cfg, torrent) ==
  IF torrent.uploadRatio < cfg.maxRatio
  THEN <<>>
  ELSE <<[torrent |-> torrent, reason |-> "ratio"]>>

checkRatioRule(cfg, torrent) ==
  IF torrent.uploadRatio = RatioSentinel \/ torrent.uploadRatio < cfg.maxRatio
  THEN <<>>
  ELSE <<[torrent |-> torrent, reason |-> "ratio"]>>

\* variant: incomplete or past the retention is enough
checkDeadRuleEither(cfg, torrent) ==
  LET isIncomplete == torrent.percentDone < Percent(100)
      isPastDeadRetention == torrent.ageHours >= Hours(cfg.deadRetentionHours)
  IN IF ~isIncomplete /\ ~isPastDeadRetention
     THEN <<>>
     ELSE <<[torrent |-> torrent, reason |-> "dead"]>>

\* variant: the retention must be exceeded, not reached
checkDeadRuleStrict(cfg, torrent) ==
  LET isIncomplete == torrent.percentDone < Percent(100)
      isPastDeadRetention == torrent.ageHours > Hours(cfg.deadRetentionHours)
  IN IF ~isIncomplete \/ ~isPastDeadRetention
     THEN <<>>
     ELSE <<[torrent |-> torrent, reason |-> "dead"]>>

\* variant: the dead rule waits for twice the retention
checkDeadRuleDoubleRetention(cfg, torrent) ==
  LET isIncomplete == torrent.percentDone < Percent(100)
      isPastDeadRetention == torrent.ageHours >= Hours(2 * cfg.deadRetentionHours)
  IN IF ~isIncomplete \/ ~isPastDeadRetention
     THEN <<>>
     ELSE <<[torrent |-> torrent, reason |-> "dead"]>>

checkDeadRule(cfg, torrent) ==
  LET isIncomplete == torrent.percentDone < Percent(100)
      isPastDeadRetention == torrent.ageHours >= Hours(cfg.deadRetentionHours)
  IN IF ~isIncomplete \/ ~isPastDeadRetention
     THEN <<>>
     ELSE <<[torrent |-> torrent, reason |-> "dead"]>>

\* variant: the maximum age must be exceeded, not reached
checkTtlRuleStrict(cfg, torrent) ==
  IF torrent.ageHours <= Hours(cfg.maxAgeHours)
  THEN <<>>
  ELSE <<[torrent |-> torrent, reason |-> "ttl"]>>

checkTtlRule(cfg, torrent) ==
  IF torrent.ageHours < Hours(cfg.maxAgeHours)
  THEN <<>>
  ELSE <<[torrent |-> torrent, reason |-> "ttl"]>>

\* variant: the ttl rule is tried before the dead rule
evaluateTtlBeforeDead(cfg, torrent) ==
  IF checkRatioRule(cfg, torrent) # <<>> THEN checkRatioRule(cfg, torrent)
  ELSE IF checkTtlRule(cfg, torrent) # <<>> THEN checkTtlRule(cfg, torrent)
  ELSE checkDeadRule(cfg, torrent)

\* a || b || c over results that are null (<<>>) or a candidate
evaluate(cfg, torrent) ==
  IF checkRatioRule(cfg, torrent) # <<>> THEN checkRatioRule(cfg, torrent)
  ELSE IF checkDeadRule(cfg, torrent) # <<>> THEN checkDeadRule(cfg, torrent)
  ELSE checkTtlRule(cfg, torrent)

\* displayTorrentsSummary reads t.name.length of every torrent: TRUE when
\* that raises a TypeError
summaryThrows(torrents) ==
  Len(torrents) > 0 /\ \E i \in DOMAIN torrents : torrents[i].name = None

RECURSIVE flatMap(_, _, _)
flatMap(cfg, seq, i) ==
  IF i > Len(seq) THEN <<>>
  ELSE evaluate(cfg, seq[i]) \o flatMap(cfg, seq, i + 1)

filterSeq(seq, Keep(_)) == SelectSeq(seq, Keep)

\* Handler.run after classification and performRemoval: return without a
\* call ("none"), skip the removal ("dry") or call removeTorrents ("remove")
removalDecisionNoDryRun(cfg, cands) ==
  IF Len(cands) = 0 THEN "none" ELSE "remove"

\* variant: no test for an empty candidate list
removalDecisionNoEmptyCheck(cfg, cands) ==
  IF cfg.dryRun THEN "dry"
  ELSE "remove"

removalDecision(cfg, cands) ==
  IF Len(cands) = 0 THEN "none"
  ELSE IF cfg.dryRun THEN "dry"
  ELSE "remove"

\* the synchronous part of Handler.run after getTorrents has returned:
\* hydrate, summary on the first run, the two filters, classification.
\* stage tells how far it got before an exception, outcome what follows.
runAfterFetch(cfg, firstRun, torrents, now) ==
  LET hyd == [i \in DOMAIN torrents |-> hydrate(torrents[i], now)]
      lab == SelectSeq(hyd, LAMBDA t : isAllowedLabel(cfg, t))
      trackerThrows == \E i \in DOMAIN lab : hasExcludedTracker(cfg, lab[i]) = "throw"
      elig == SelectSeq(lab, LAMBDA t : hasExcludedTracker(cfg, t) = "false")
      cands == flatMap(cfg, elig, 1)
      base == [stage |-> "fetched", outcome |-> "throw", hydrated |-> hyd,
               byLabel |-> <<>>, eligible |-> <<>>, candidates |-> <<>>,
               isFirstRun |-> firstRun,
               err |-> <<"Cannot read properties of null (reading 'length')">>]
  IN IF firstRun /\ summaryThrows(hyd) THEN base
     ELSE IF trackerThrows
     THEN [base EXCEPT !.stage = "labelled", !.byLabel = lab,
                       !.isFirstRun = FALSE, !.err = <<"Invalid URL">>]
     ELSE [base EXCEPT !.stage = "classified", !.byLabel = lab,
                       !.eligible = elig, !.candidates = cands,
                       !.isFirstRun = FALSE, !.err = <<>>,
                       !.outcome = removalDecision(cfg, cands)]

candidateIds(cands) == [i \in DOMAIN cands |-> cands[i].torrent.id]

\* ------------------------------------------------------------------------
\* client.ts: HTTP responses and rpc
\* ------------------------------------------------------------------------
Tokens == {"s1", "s2"}

OptTokens == {None} \cup {Some(k) : k \in Tokens}

\* status 0 stands for a fetch() that rejects (no response)
Response(status, statusText, token, json, result, arguments) ==
  [status |-> status, statusText |-> statusText, token |-> token,
   json |-> json, result |-> result, arguments |-> arguments]

NoResponse == Response(-1, "", None, FALSE, "", None)

PayloadsOf(method) ==
  IF method = "torrent-get"
  THEN {None, Some([torrents |-> None])}
       \cup {Some([torrents |-> Some(l)]) : l \in WireLists}
  ELSE {None, Some([torrents |-> None])}

\* every answer to a request: no answer, a 409, an error status, a body
\* that is not JSON, an RPC failure, a success
AnyResponsesTo(method) ==
  {Response(0, "", None, FALSE, "", None)}
  \cup {Response(409, "Conflict", k, FALSE, "", None) : k \in OptTokens}
  \cup {Response(401, "Unauthorized", k, FALSE, "", None) : k \in OptTokens}
  \cup {Response(200, "OK", k, FALSE, "", None) : k \in OptTokens}
  \cup {Response(200, "OK", k, TRUE, "failure", None) : k \in OptTokens}
  \cup {Response(200, "OK", k, TRUE, "success", a) :
          k \in OptTokens, a \in PayloadsOf(method)}

\* the answers of a daemon whose only faults are refused connections and
\* stale sessions, and that holds at most one torrent
PlainResponsesTo(method) ==
  {Response(0, "", None, FALSE, "", None),
   Response(409, "Conflict", Some("s1"), FALSE, "", None),
   Response(409, "Conflict", Some("s2"), FALSE, "", None)}
  \cup (IF method = "torrent-get"
        THEN {Response(200, "OK", None, TRUE, "success", Some([torrents |-> Some(l)])) :
                l \in {w \in WireLists : Len(w) <= 1}}
        ELSE {Response(200, "OK", None, TRUE, "success", None)})

Daemons == {"any", "plain"}

WrapPrefix == "Transmission RPC call failed: "

NegotiationMessage ==
  "Failed to negotiate Transmission session after multiple attempts (409)."

\* variant: the token is captured from a 409 only
sessionAfterOnly409(sid, response) ==
  IF response.status = 409 /\ response.token # None
  THEN response.token
  ELSE sid

\* the token this.sessionId holds after the response has been processed
sessionAfter(sid, response) ==
  IF response.status > 0
     /\ (response.status = 409 \/ response.token # None)
     /\ response.token # None
  THEN response.token
  ELSE sid

\* variant: a third retransmission is allowed
rpcOutcomeThreeRetries(retryCount, response) ==
  LET throw(msg) == [kind |-> "throw", message |-> <<WrapPrefix>> \o msg,
                     arguments |-> None]
  IN IF response.status = 0 THEN throw(<<"fetch failed">>)
     ELSE IF response.status = 409
     THEN IF retryCount >= MaxSessionRetries + 1
          THEN throw(<<NegotiationMessage>>)
          ELSE [kind |-> "retransmit", message |-> <<>>, arguments |-> None]
     ELSE IF ~(response.status >= 200 /\ response.status <= 299)
     THEN throw(<<"API request failed: ", response.statusText>>)
     ELSE IF ~response.json THEN throw(<<"Unexpected token">>)
     ELSE IF response.result # "success"
     THEN throw(<<"RPC error: ", response.result>>)
     ELSE [kind |-> "return", message |-> <<>>, arguments |-> response.arguments]

\* variant: the RPC result string is not looked at
rpcOutcomeResultIgnored(retryCount, response) ==
  LET throw(msg) == [kind |-> "throw", message |-> <<WrapPrefix>> \o msg,
                     arguments |-> None]
  IN IF response.status = 0 THEN throw(<<"fetch failed">>)
     ELSE IF response.status = 409
     THEN IF retryCount >= MaxSessionRetries
          THEN throw(<<NegotiationMessage>>)
          ELSE [kind |-> "retransmit", message |-> <<>>, arguments |-> None]
     ELSE IF ~(response.status >= 200 /\ response.status <= 299)
     THEN throw(<<"API request failed: ", response.statusText>>)
     ELSE IF ~response.json THEN throw(<<"Unexpected token">>)
     ELSE [kind |-> "return", message |-> <<>>, arguments |-> response.arguments]

\* what one transmission of rpc does with its response: retransmit, return
\* the arguments, or throw (the catch of rpc wraps every message once)
rpcOutcome(retryCount, response) ==
  LET throw(msg) == [kind |-> "throw", message |-> <<WrapPrefix>> \o msg,
                     arguments |-> None]
  IN IF response.status = 0 THEN throw(<<"fetch failed">>)
     ELSE IF response.status = 409
     THEN IF retryCount >= MaxSessionRetries
          THEN throw(<<NegotiationMessage>>)
          ELSE [kind |-> "retransmit", message |-> <<>>, arguments |-> None]
     ELSE IF ~(response.status >= 200 /\ response.status <= 299)
     THEN throw(<<"API request failed: ", response.statusText>>)
     ELSE IF ~response.json THEN throw(<<"Unexpected token">>)
     ELSE IF response.result # "success"
     THEN throw(<<"RPC error: ", response.result>>)
     ELSE [kind |-> "return", message |-> <<>>, arguments |-> response.arguments]

ConnectivityFragments ==
  {"ENOTFOUND", "ECONNREFUSED", "Connect timeout", "getaddrinfo ENOTFOUND",
   "fetch failed", "ECONNRESET"}

\* the test of the catch block of getTorrents on the message
isConnectivityMessage(message) ==
  \E i \in DOMAIN message : message[i] \in ConnectivityFragments

\* variant: the error is rethrown only after attempt 30 has been exceeded
catchOutcomeLate(message, attemptNo) ==
  IF isConnectivityMessage(message) /\ attemptNo # 1 /\ attemptNo < MaxAttempts
  THEN [next |-> "sleep", log |-> "none"]
  ELSE IF attemptNo > MaxAttempts
       THEN [next |-> "throw", log |-> "none"]
       ELSE [next |-> "sleep", log |-> "none"]

\* variant: the connecting notice is written on every failing attempt
catchOutcomeNoisy(message, attemptNo) ==
  LET log == IF ~isConnectivityMessage(message) THEN "none"
             ELSE IF attemptNo < MaxAttempts THEN "connecting"
             ELSE "failed"
  IN IF attemptNo >= MaxAttempts
     THEN [next |-> "throw", log |-> log]
     ELSE [next |-> "sleep", log |-> log]

\* the catch block of getTorrents for the error caught on attempt attemptNo:
\* what it logs and whether it sleeps before the next attempt or rethrows
catchOutcome(message, attemptNo) ==
  IF isConnectivityMessage(message) /\ attemptNo # 1 /\ attemptNo < MaxAttempts
  THEN [next |-> "sleep", log |-> "none"]
  ELSE LET log == IF ~isConnectivityMessage(message) THEN "none"
                  ELSE IF attemptNo = 1 THEN "connecting"
                  ELSE IF attemptNo = MaxAttempts THEN "failed"
                  ELSE "none"
       IN IF attemptNo >= MaxAttempts
          THEN [next |-> "throw", log |-> log]
          ELSE [next |-> "sleep", log |-> log]

\* the loop condition of getTorrents
loopContinues(attemptNo) == attemptNo <= MaxAttempts

ExhaustedMessage == "Failed to connect to Transmission after 30 attempts"

\* ------------------------------------------------------------------------
\* State
\* ------------------------------------------------------------------------
VARIABLES
  mainPc,       \* index.ts: "boot", "start", "firstRun", "scheduled", "exit0",
                \*           "exit1", "crashed" (an exception before the first run)
  env,          \* process.env
  daemon,       \* the kind of daemon at the other end: one of Daemons
  config,       \* the Config loaded at startup, NoConfig before
  sessionId,    \* TransmissionClient.sessionId: None or Some(token)
  isFirstRun,   \* Handler.isFirstRun
  pc,           \* per run: "idle", "fetchWait", "fetchSleep", "fetched",
                \*          "removeWait", "done", "failed"
  attempt,      \* per run: loop variable of getTorrents, 0 before the call and
                \*          once Handler.run has resumed with its result
  retryCount,   \* per run: retryCount of the rpc transmission in flight
  req,          \* per run: the HTTP request in flight, None or Some(request)
  resp,         \* per run: the last response received by the rpc call in
                \*          progress or just finished
  err,          \* per run: message of the error caught by getTorrents or
                \*          thrown out of Handler.run
  stage,        \* per run: "none", "fetched", "labelled", "classified"
  fetched,      \* per run: torrents returned by getTorrents
  hydrated,     \* per run: locals of Handler.run
  byLabel,
  eligible,
  candidates,
  removeCalls,  \* per run: the calls of client.removeTorrents, in order
  log           \* per run: the lines getTorrents wrote to the logger in the
                \*          last step of the run

vars == <<mainPc, env, daemon, config, sessionId, isFirstRun, pc, attempt, retryCount, req,
          resp, err, stage, fetched, hydrated, byLabel, eligible, candidates,
          removeCalls, log>>

runLocals == <<stage, fetched, hydrated, byLabel, eligible, candidates>>

\* what no step of a run changes
fixed == <<env, daemon, config>>

\* a line of getTorrents: its kind, the attempt it was written on and the
\* number of torrents it names
LogLine(kind, attemptNo, count) ==
  [kind |-> kind, attempt |-> attemptNo, count |-> count]

\* the step of run r writes no line of getTorrents
silent(r) == log' = [log EXCEPT ![r] = <<>>]

\* what the daemon can answer to a request
ResponsesTo(method) ==
  IF daemon = "any" THEN AnyResponsesTo(method) ELSE PlainResponsesTo(method)

\* the process has been started in environment e in front of daemon d
startup(e, d) ==
  /\ env = e
  /\ daemon = d
  /\ config = NoConfig
  /\ mainPc = "boot"
  /\ sessionId = None
  /\ isFirstRun = TRUE
  /\ pc = [r \in Runs |-> "idle"]
  /\ attempt = [r \in Runs |-> 0]
  /\ retryCount = [r \in Runs |-> 0]
  /\ req = [r \in Runs |-> None]
  /\ resp = [r \in Runs |-> NoResponse]
  /\ err = [r \in Runs |-> <<>>]
  /\ stage = [r \in Runs |-> "none"]
  /\ fetched = [r \in Runs |-> <<>>]
  /\ hydrated = [r \in Runs |-> <<>>]
  /\ byLabel = [r \in Runs |-> <<>>]
  /\ eligible = [r \in Runs |-> <<>>]
  /\ candidates = [r \in Runs |-> <<>>]
  /\ removeCalls = [r \in Runs |-> <<>>]
  /\ log = [r \in Runs |-> <<>>]

\* a one-shot process in front of a daemon that can answer anything
Init == \E e \in Envs : startup(e, "any")

\* variant: the session header is never set
RequestWithoutToken(method, args, sid) ==
  [method |-> method, args |-> args, token |-> None]

\* the request rpc sends: method, arguments and the session header, which
\* is the token held at the moment of sending
Request(method, args, sid) == [method |-> method, args |-> args, token |-> sid]

GetArgs == [ids |-> <<>>, deleteLocalData |-> FALSE]

RemoveArgs(ids, del) == [ids |-> ids, deleteLocalData |-> del]

\* variant: a failed run ends the process whenever it happens
mainAfterRunExitOnFailure(r, ok) ==
  IF ~ok THEN "exit1"
  ELSE IF mainPc = "firstRun" /\ r = 1
  THEN IF config.schedule # None THEN "scheduled" ELSE "exit0"
  ELSE mainPc

\* variant: the scheduler is registered whether or not a schedule is set
mainAfterRunAlwaysScheduled(r, ok) ==
  IF mainPc = "firstRun" /\ r = 1
  THEN IF ~ok THEN "exit1" ELSE "scheduled"
  ELSE mainPc

\* index.ts after the awaited handler.run() of run r has settled
mainAfterRun(r, ok) ==
  IF mainPc = "firstRun" /\ r = 1
  THEN IF ~ok THEN "exit1"
       ELSE IF config.schedule # None THEN "scheduled"
       ELSE "exit0"
  ELSE mainPc


\* index.ts up to the async function: loadConfig, the banner and the
\* constructors; an exception there ends the process
LoadConfig ==
  /\ mainPc = "boot"
  /\ config' = loadConfig(env).config
  /\ mainPc' = (IF startupCompletes(env) THEN "start" ELSE "crashed")
  /\ UNCHANGED <<env, daemon, sessionId, isFirstRun, pc, attempt, retryCount, req,
                 resp, err, runLocals, removeCalls, log>>

\* getTorrents starts: attempt 1, first transmission of rpc("torrent-get")
beginRun(r) ==
  /\ pc[r] = "idle"
  /\ pc' = [pc EXCEPT ![r] = "fetchWait"]
  /\ attempt' = [attempt EXCEPT ![r] = 1]
  /\ retryCount' = [retryCount EXCEPT ![r] = 0]
  /\ req' = [req EXCEPT ![r] = Some(Request("torrent-get", GetArgs, sessionId))]
  /\ silent(r)
  /\ UNCHANGED <<fixed, sessionId, isFirstRun, resp, err, runLocals, removeCalls>>

\* variant: the scheduler is registered before the first run is awaited
StartFirstRunRegistersFirst ==
  /\ mainPc = "start"
  /\ mainPc' = (IF config.schedule # None THEN "scheduled" ELSE "firstRun")
  /\ beginRun(1)

\* index.ts: the first handler.run() at startup
StartFirstRun ==
  /\ mainPc = "start"
  /\ mainPc' = "firstRun"
  /\ beginRun(1)

\* rpc("torrent-get") receives a 409 below the bound and retransmits
FetchRetransmit(r) ==
  /\ pc[r] = "fetchWait"
  /\ \E response \in ResponsesTo("torrent-get") :
       /\ rpcOutcome(retryCount[r], response).kind = "retransmit"
       /\ sessionId' = sessionAfter(sessionId, response)
       /\ resp' = [resp EXCEPT ![r] = response]
       /\ retryCount' = [retryCount EXCEPT ![r] = retryCount[r] + 1]
       /\ req' = [req EXCEPT ![r] =
                    Some(Request(req[r][1].method, req[r][1].args, sessionId'))]
  /\ silent(r)
  /\ UNCHANGED <<mainPc, fixed, isFirstRun, pc, attempt, err, runLocals,
                 removeCalls>>

\* the state right after getTorrents has returned the list of a response
fetchReturned(r, response, sid) ==
  /\ sessionId' = sid
  /\ resp' = [resp EXCEPT ![r] = response]
  /\ retryCount' = [retryCount EXCEPT ![r] = 0]
  /\ req' = [req EXCEPT ![r] = None]
  /\ fetched' = [fetched EXCEPT ![r] =
                   toRawTorrents(OrList(response.arguments[1].torrents, <<>>))]
  /\ pc' = [pc EXCEPT ![r] = "fetched"]
  /\ log' = [log EXCEPT ![r] =
               <<LogLine(IF attempt[r] > 1 THEN "connected" ELSE "fetched",
                         attempt[r], Len(fetched'[r]))>>]

\* rpc("torrent-get") returns a payload: getTorrents maps it and returns
FetchReturn(r) ==
  /\ pc[r] = "fetchWait"
  /\ \E response \in ResponsesTo("torrent-get") :
       LET out == rpcOutcome(retryCount[r], response)
       IN /\ out.kind = "return"
          /\ out.arguments # None
          /\ fetchReturned(r, response, sessionAfter(sessionId, response))
  /\ UNCHANGED <<mainPc, fixed, isFirstRun, attempt, err, stage, hydrated, byLabel,
                 eligible, candidates, removeCalls>>

\* Handler.run resumes with the fetched list and goes on to its end or to
\* the await of removeTorrents in performRemoval
RunAfterFetch(r) ==
  /\ pc[r] = "fetched"
  /\ \E now \in Nows :
       LET res == runAfterFetch(config, isFirstRun, fetched[r], now)
           ids == candidateIds(res.candidates)
       IN /\ stage' = [stage EXCEPT ![r] = res.stage]
          /\ hydrated' = [hydrated EXCEPT ![r] = res.hydrated]
          /\ byLabel' = [byLabel EXCEPT ![r] = res.byLabel]
          /\ eligible' = [eligible EXCEPT ![r] = res.eligible]
          /\ candidates' = [candidates EXCEPT ![r] = res.candidates]
          /\ isFirstRun' = res.isFirstRun
          /\ err' = [err EXCEPT ![r] = res.err]
          /\ IF res.outcome = "remove"
             THEN /\ pc' = [pc EXCEPT ![r] = "removeWait"]
                  /\ removeCalls' = [removeCalls EXCEPT ![r] =
                       Append(removeCalls[r], RemoveArgs(ids, TRUE))]
                  /\ req' = [req EXCEPT ![r] =
                       Some(Request("torrent-remove", RemoveArgs(ids, TRUE),
                                    sessionId))]
                  /\ mainPc' = mainPc
             ELSE /\ pc' = [pc EXCEPT ![r] =
                       IF res.outcome = "throw" THEN "failed" ELSE "done"]
                  /\ removeCalls' = removeCalls
                  /\ req' = req
                  /\ mainPc' = mainAfterRun(r, res.outcome # "throw")
  /\ attempt' = [attempt EXCEPT ![r] = 0]
  /\ silent(r)
  /\ UNCHANGED <<fixed, sessionId, retryCount, resp, fetched>>

\* the message getTorrents catches for a response that does not yield a list
fetchFailure(rc, response) ==
  LET out == rpcOutcome(rc, response)
  IN IF out.kind = "throw" THEN out.message
     ELSE IF out.kind = "return" /\ out.arguments = None
     THEN <<"Cannot read properties of undefined (reading 'torrents')">>
     ELSE <<>>

\* rpc("torrent-get") throws, or its result has no arguments: the catch block
\* of getTorrents sleeps before the next attempt or rethrows, and a rethrown
\* error passes through Handler.run to index.ts
FetchError(r) ==
  /\ pc[r] = "fetchWait"
  /\ \E response \in ResponsesTo("torrent-get") :
       LET message == fetchFailure(retryCount[r], response)
           c == catchOutcome(message, attempt[r])
       IN /\ message # <<>>
          /\ sessionId' = sessionAfter(sessionId, response)
          /\ resp' = [resp EXCEPT ![r] = response]
          /\ err' = [err EXCEPT ![r] = message]
          /\ req' = [req EXCEPT ![r] = None]
          /\ log' = [log EXCEPT ![r] =
                       IF c.log = "none" THEN <<>>
                       ELSE <<LogLine(c.log, attempt[r], 0)>>]
          /\ IF c.next = "throw"
             THEN /\ pc' = [pc EXCEPT ![r] = "failed"]
                  /\ mainPc' = mainAfterRun(r, FALSE)
             ELSE /\ pc' = [pc EXCEPT ![r] = "fetchSleep"]
                  /\ mainPc' = mainPc
  /\ UNCHANGED <<fixed, isFirstRun, attempt, retryCount, runLocals, removeCalls>>

\* variant: the loop does not count its attempts
FetchSleepDoneUncounted(r) ==
  /\ pc[r] = "fetchSleep"
  /\ pc' = [pc EXCEPT ![r] = "fetchWait"]
  /\ retryCount' = [retryCount EXCEPT ![r] = 0]
  /\ req' = [req EXCEPT ![r] = Some(Request("torrent-get", GetArgs, sessionId))]
  /\ err' = [err EXCEPT ![r] = <<>>]
  /\ resp' = [resp EXCEPT ![r] = NoResponse]
  /\ silent(r)
  /\ UNCHANGED <<mainPc, fixed, sessionId, isFirstRun, attempt, runLocals,
                 removeCalls>>

\* the one-second timer of getTorrents fires: next iteration of the loop
FetchSleepDone(r) ==
  /\ pc[r] = "fetchSleep"
  /\ attempt' = [attempt EXCEPT ![r] = attempt[r] + 1]
  /\ IF loopContinues(attempt[r] + 1)
     THEN /\ pc' = [pc EXCEPT ![r] = "fetchWait"]
          /\ retryCount' = [retryCount EXCEPT ![r] = 0]
          /\ req' = [req EXCEPT ![r] =
                       Some(Request("torrent-get", GetArgs, sessionId))]
          /\ err' = [err EXCEPT ![r] = <<>>]
          /\ mainPc' = mainPc
     ELSE /\ pc' = [pc EXCEPT ![r] = "failed"]
          /\ err' = [err EXCEPT ![r] = <<ExhaustedMessage>>]
          /\ mainPc' = mainAfterRun(r, FALSE)
          /\ UNCHANGED <<retryCount, req>>
  /\ resp' = [resp EXCEPT ![r] = NoResponse]
  /\ silent(r)
  /\ UNCHANGED <<fixed, sessionId, isFirstRun, runLocals, removeCalls>>

\* rpc("torrent-remove") receives a 409 below the bound and retransmits
RemoveRetransmit(r) ==
  /\ pc[r] = "removeWait"
  /\ \E response \in ResponsesTo("torrent-remove") :
       /\ rpcOutcome(retryCount[r], response).kind = "retransmit"
       /\ sessionId' = sessionAfter(sessionId, response)
       /\ resp' = [resp EXCEPT ![r] = response]
       /\ retryCount' = [retryCount EXCEPT ![r] = retryCount[r] + 1]
       /\ req' = [req EXCEPT ![r] =
                    Some(Request(req[r][1].method, req[r][1].args, sessionId'))]
  /\ silent(r)
  /\ UNCHANGED <<mainPc, fixed, isFirstRun, pc, attempt, err, runLocals,
                 removeCalls>>

\* variant: after the removal the run fetches the list again
RemoveReturnRefetches(r) ==
  /\ pc[r] = "removeWait"
  /\ \E response \in ResponsesTo("torrent-remove") :
       /\ rpcOutcome(retryCount[r], response).kind = "return"
       /\ sessionId' = sessionAfter(sessionId, response)
       /\ resp' = [resp EXCEPT ![r] = response]
       /\ req' = [req EXCEPT ![r] =
                   Some(Request("torrent-get", GetArgs, sessionId'))]
  /\ pc' = [pc EXCEPT ![r] = "fetchWait"]
  /\ attempt' = [attempt EXCEPT ![r] = 1]
  /\ retryCount' = [retryCount EXCEPT ![r] = 0]
  /\ silent(r)
  /\ UNCHANGED <<mainPc, fixed, isFirstRun, err, runLocals, removeCalls>>

\* rpc("torrent-remove") returns: removeTorrents, performRemoval and
\* Handler.run return
RemoveReturn(r) ==
  /\ pc[r] = "removeWait"
  /\ \E response \in ResponsesTo("torrent-remove") :
       /\ rpcOutcome(retryCount[r], response).kind = "return"
       /\ sessionId' = sessionAfter(sessionId, response)
       /\ resp' = [resp EXCEPT ![r] = response]
  /\ pc' = [pc EXCEPT ![r] = "done"]
  /\ req' = [req EXCEPT ![r] = None]
  /\ retryCount' = [retryCount EXCEPT ![r] = 0]
  /\ mainPc' = mainAfterRun(r, TRUE)
  /\ silent(r)
  /\ UNCHANGED <<fixed, isFirstRun, attempt, err, runLocals, removeCalls>>

\* variant: a failed removal is sent again
RemoveErrorRetries(r) ==
  /\ pc[r] = "removeWait"
  /\ \E response \in ResponsesTo("torrent-remove") :
       LET out == rpcOutcome(retryCount[r], response)
       IN /\ out.kind = "throw"
          /\ sessionId' = sessionAfter(sessionId, response)
          /\ resp' = [resp EXCEPT ![r] = response]
          /\ err' = [err EXCEPT ![r] = out.message]
          /\ req' = [req EXCEPT ![r] =
                       Some(Request(req[r][1].method, req[r][1].args, sessionId'))]
  /\ retryCount' = [retryCount EXCEPT ![r] = 0]
  /\ silent(r)
  /\ UNCHANGED <<mainPc, fixed, isFirstRun, pc, attempt, runLocals, removeCalls>>

\* rpc("torrent-remove") throws: nothing catches it before index.ts
RemoveError(r) ==
  /\ pc[r] = "removeWait"
  /\ \E response \in ResponsesTo("torrent-remove") :
       LET out == rpcOutcome(retryCount[r], response)
       IN /\ out.kind = "throw"
          /\ sessionId' = sessionAfter(sessionId, response)
          /\ resp' = [resp EXCEPT ![r] = response]
          /\ err' = [err EXCEPT ![r] = out.message]
  /\ pc' = [pc EXCEPT ![r] = "failed"]
  /\ req' = [req EXCEPT ![r] = None]
  /\ mainPc' = mainAfterRun(r, FALSE)
  /\ silent(r)
  /\ UNCHANGED <<fixed, isFirstRun, attempt, retryCount, runLocals, removeCalls>>

InFlight(r) == pc[r] \in {"fetchWait", "fetchSleep", "fetched", "removeWait"}

\* the scheduler fires: the callback registered by cron.schedule calls
\* handler.run(), whether or not an earlier run is still in flight
CronTick(r) ==
  /\ mainPc = "scheduled"
  /\ ~InFlight(r)
  /\ \A q \in Runs : q < r => InFlight(q)
  /\ pc' = [pc EXCEPT ![r] = "fetchWait"]
  /\ attempt' = [attempt EXCEPT ![r] = 1]
  /\ retryCount' = [retryCount EXCEPT ![r] = 0]
  /\ req' = [req EXCEPT ![r] = Some(Request("torrent-get", GetArgs, sessionId))]
  /\ resp' = [resp EXCEPT ![r] = NoResponse]
  /\ err' = [err EXCEPT ![r] = <<>>]
  /\ stage' = [stage EXCEPT ![r] = "none"]
  /\ fetched' = [fetched EXCEPT ![r] = <<>>]
  /\ hydrated' = [hydrated EXCEPT ![r] = <<>>]
  /\ byLabel' = [byLabel EXCEPT ![r] = <<>>]
  /\ eligible' = [eligible EXCEPT ![r] = <<>>]
  /\ candidates' = [candidates EXCEPT ![r] = <<>>]
  /\ removeCalls' = [removeCalls EXCEPT ![r] = <<>>]
  /\ silent(r)
  /\ UNCHANGED <<mainPc, fixed, sessionId, isFirstRun>>

\* the steps of a process started without a schedule
Next ==
  \/ LoadConfig
  \/ StartFirstRun
  \/ \E r \in Runs : FetchRetransmit(r)
  \/ \E r \in Runs : FetchReturn(r)
  \/ \E r \in Runs : RunAfterFetch(r)
  \/ \E r \in Runs : FetchError(r)
  \/ \E r \in Runs : FetchSleepDone(r)
  \/ \E r \in Runs : RemoveRetransmit(r)
  \/ \E r \in Runs : RemoveReturn(r)
  \/ \E r \in Runs : RemoveError(r)

Spec == Init /\ [][Next]_vars

\* every request of getTorrents is answered (fetch() settles) and the timer
\* of its sleep fires
Fairness ==
  \A r \in Runs :
    /\ WF_vars(FetchRetransmit(r) \/ FetchReturn(r) \/ FetchError(r))
    /\ WF_vars(FetchSleepDone(r))

\* getTorrents reads nothing of the configuration: the one-shot
\* environments with one setting of the thresholds and of the exclusion list
FairEnvs ==
  { e \in Envs :
      /\ e.EXCLUDED_TRACKERS = Some(<<>>)
      /\ e.MAX_RATIO = Some(<<"2">>)
      /\ e.DEAD_RETENTION_HOURS = Some(<<"1">>)
      /\ e.MAX_AGE_HOURS = Some(<<"1">>) }

InitFair == \E e \in FairEnvs : startup(e, "any")

SpecFair == InitFair /\ [][Next]_vars /\ Fairness

TypeOK ==
  /\ mainPc \in {"boot", "start", "firstRun", "scheduled", "exit0", "exit1",
                 "crashed"}
  /\ daemon \in Daemons
  /\ config \in Configs \cup {NoConfig}
  /\ sessionId \in OptTokens
  /\ isFirstRun \in BOOLEAN
  /\ \A r \in Runs :
       /\ pc[r] \in {"idle", "fetchWait", "fetchSleep", "fetched", "removeWait",
                    "done", "failed"}
       /\ attempt[r] \in 0..(MaxAttempts + 1)
       /\ retryCount[r] \in 0..MaxSessionRetries
       /\ Len(removeCalls[r]) <= 1
       /\ Len(log[r]) <= 1
       /\ \A i \in DOMAIN log[r] :
            LET l == log[r][i] IN
            /\ l.kind \in {"connecting", "failed", "fetched", "connected"}
            /\ l.attempt \in 1..MaxAttempts
            /\ l.count \in 0..MaxTorrents

\* ------------------------------------------------------------------------
\* Handler.run from the return of getTorrents on, over every list the daemon
\* can hold: the initial states are the states FetchReturn leaves behind in
\* the first run.
\* ------------------------------------------------------------------------
InitHandler ==
  /\ mainPc = "firstRun"
  /\ env \in Envs
  /\ daemon = "any"
  /\ config = loadConfig(env).config
  /\ sessionId \in OptTokens
  /\ isFirstRun = TRUE
  /\ \E list \in DaemonLists :
       /\ resp = [r \in Runs |->
                    IF r = 1
                    THEN Response(200, "OK", None, TRUE, "success",
                                  Some([torrents |-> Some(list)]))
                    ELSE NoResponse]
       /\ fetched = [r \in Runs |-> IF r = 1 THEN toRawTorrents(list) ELSE <<>>]
       /\ log = [r \in Runs |->
                   IF r = 1 THEN <<LogLine("fetched", 1, Len(list))>> ELSE <<>>]
  /\ pc = [r \in Runs |-> IF r = 1 THEN "fetched" ELSE "idle"]
  /\ attempt = [r \in Runs |-> IF r = 1 THEN 1 ELSE 0]
  /\ retryCount = [r \in Runs |-> 0]
  /\ req = [r \in Runs |-> None]
  /\ err = [r \in Runs |-> <<>>]
  /\ stage = [r \in Runs |-> "none"]
  /\ hydrated = [r \in Runs |-> <<>>]
  /\ byLabel = [r \in Runs |-> <<>>]
  /\ eligible = [r \in Runs |-> <<>>]
  /\ candidates = [r \in Runs |-> <<>>]
  /\ removeCalls = [r \in Runs |-> <<>>]

NextHandler ==
  \/ \E r \in Runs : RunAfterFetch(r)
  \/ \E r \in Runs : RemoveRetransmit(r)
  \/ \E r \in Runs : RemoveReturn(r)
  \/ \E r \in Runs : RemoveError(r)

SpecHandler == InitHandler /\ [][NextHandler]_vars

\* ------------------------------------------------------------------------
\* The process from its start on, with and without a schedule, in valid and
\* invalid environments, in front of a plain daemon.
\* ------------------------------------------------------------------------
InitScheduled == \E e \in ScheduledEnvs : startup(e, "plain")

NextScheduled ==
  \/ Next
  \/ \E r \in Runs : CronTick(r)

SpecScheduled == InitScheduled /\ [][NextScheduled]_vars

\* ------------------------------------------------------------------------
\* Properties
\* ------------------------------------------------------------------------
Range(seq) == {seq[i] : i \in DOMAIN seq}

\* the three rules and the two filters as section 4 of the specification
\* states them, on a hydrated torrent
RatioMatches(t) ==
  t.uploadRatio # RatioSentinel /\ t.uploadRatio >= config.maxRatio

DeadMatches(t) ==
  t.percentDone < Percent(100) /\ t.ageHours >= Hours(config.deadRetentionHours)

TtlMatches(t) == t.ageHours >= Hours(config.maxAgeHours)

NoRuleMatches(t) ==
  /\ (t.uploadRatio = RatioSentinel \/ t.uploadRatio < config.maxRatio)
  /\ (t.percentDone >= Percent(100) \/ t.ageHours < Hours(config.deadRetentionHours))
  /\ t.ageHours < Hours(config.maxAgeHours)

LabelAllowed(t) == toLowerCase(t.label) \in Range(config.allowedLabels)

TrackerExcluded(t) ==
  \E u \in Range(t.trackerUrls), k \in Range(config.excludedTrackers) :
    parseURL(u).ok /\ includes(parseURL(u).hostname, k)

RemovedIds(r) == UNION {Range(call.ids) : call \in Range(removeCalls[r])}

ReasonsOf(r, t) == {c.reason : c \in {d \in Range(candidates[r]) : d.torrent = t}}

\* C1: every ID passed to removeTorrents is the ID of a torrent fetched in
\* that run that passed the label filter and the tracker-exclusion filter;
\* the candidates are among the eligible torrents and those among the
\* hydrated torrents of the fetch.
C1_RemovedAreEligible ==
  \A r \in Runs :
    /\ \A id \in RemovedIds(r) :
         \E i \in DOMAIN fetched[r] :
           /\ fetched[r][i].id = id
           /\ hydrated[r][i].id = id
           /\ LabelAllowed(hydrated[r][i])
           /\ ~TrackerExcluded(hydrated[r][i])
    /\ {c.torrent : c \in Range(candidates[r])} \subseteq Range(eligible[r])
    /\ Range(eligible[r]) \subseteq Range(hydrated[r])
    /\ stage[r] # "none" => Len(hydrated[r]) = Len(fetched[r])

\* a removal was requested although the fetch holds an ineligible torrent
\* that matches a rule
C1_Witness ==
  \E r \in Runs :
    /\ removeCalls[r] # <<>>
    /\ \E t \in Range(hydrated[r]) :
         /\ ~LabelAllowed(t) \/ TrackerExcluded(t)
         /\ RatioMatches(t) /\ TtlMatches(t)

\* C2: a candidate carries the reason of the earliest rule that matches its
\* torrent in the order ratio, dead, ttl, and no torrent is a candidate twice.
C2_FirstRuleWins ==
  \A r \in Runs :
    /\ \A c \in Range(candidates[r]) :
         c.reason = IF RatioMatches(c.torrent) THEN "ratio"
                    ELSE IF DeadMatches(c.torrent) THEN "dead"
                    ELSE IF TtlMatches(c.torrent) THEN "ttl"
                    ELSE "none"
    /\ \A i, j \in DOMAIN candidates[r] :
         candidates[r][i].torrent.id = candidates[r][j].torrent.id => i = j
    /\ \A t \in Range(eligible[r]) : Cardinality(ReasonsOf(r, t)) <= 1

\* a candidate whose torrent matches all three rules, and one that matches
\* the dead and the ttl rule only
C2_Witness ==
  \E r \in Runs :
    /\ \E c \in Range(candidates[r]) :
         RatioMatches(c.torrent) /\ DeadMatches(c.torrent) /\ TtlMatches(c.torrent)
    /\ \E c \in Range(candidates[r]) :
         ~RatioMatches(c.torrent) /\ DeadMatches(c.torrent) /\ TtlMatches(c.torrent)

\* C3: a torrent whose uploadRatio is -1 keeps that value through hydration
\* and is never a candidate with reason ratio, whatever maxRatio is.
C3_SentinelNeverRatio ==
  \A r \in Runs :
    /\ \A c \in Range(candidates[r]) :
         c.torrent.uploadRatio = RatioSentinel => c.reason # "ratio"
    /\ stage[r] # "none" =>
         \A i \in DOMAIN fetched[r] :
           fetched[r][i].uploadRatio = RatioSentinel =>
             /\ hydrated[r][i].uploadRatio = RatioSentinel
             /\ \A c \in Range(candidates[r]) :
                  c.torrent.id = fetched[r][i].id => c.reason # "ratio"

\* an eligible torrent with ratio -1 was classified under a maxRatio that
\* -1 reaches numerically
C3_Witness ==
  \E r \in Runs :
    /\ stage[r] = "classified"
    /\ config.maxRatio <= RatioSentinel
    /\ \E t \in Range(eligible[r]) : t.uploadRatio = RatioSentinel

\* C4: the ID of a torrent that matches none of the three rules is in no
\* removeTorrents call of the run.
C4_UnmatchedUntouched ==
  \A r \in Runs :
    \A t \in Range(hydrated[r]) :
      NoRuleMatches(t) =>
        /\ t.id \notin RemovedIds(r)
        /\ ReasonsOf(r, t) = {}

\* a removal was requested in a run with an eligible torrent matching no rule
C4_Witness ==
  \E r \in Runs :
    /\ removeCalls[r] # <<>>
    /\ \E t \in Range(eligible[r]) : NoRuleMatches(t)

\* C5: every eligible torrent with ageHours >= maxAgeHours is a candidate,
\* whatever its completion and ratio; its reason is ttl exactly when neither
\* the ratio rule nor the dead rule matches.
C5_TtlBackstop ==
  \A r \in Runs :
    stage[r] = "classified" =>
      \A t \in Range(eligible[r]) :
        TtlMatches(t) =>
          /\ ReasonsOf(r, t) # {}
          /\ ("ttl" \in ReasonsOf(r, t)) <=> (~RatioMatches(t) /\ ~DeadMatches(t))

\* an eligible torrent with ratio -1, exactly maxAgeHours old, is a
\* candidate with reason ttl
C5_Witness ==
  \E r \in Runs :
    \E c \in Range(candidates[r]) :
      /\ c.reason = "ttl"
      /\ c.torrent.uploadRatio = RatioSentinel
      /\ c.torrent.ageHours = Hours(config.maxAgeHours)

\* C6: the hydrated percentDone is the source fraction times 100, and an
\* eligible torrent that does not match the ratio rule has reason dead if and
\* only if that percentage is below 100 and ageHours >= deadRetentionHours.
C6_DeadRule ==
  \A r \in Runs :
    /\ stage[r] # "none" =>
         \A i \in DOMAIN fetched[r] :
           hydrated[r][i].percentDone = fetched[r][i].percentDone * 100
    /\ stage[r] = "classified" =>
         \A t \in Range(eligible[r]) :
           ~RatioMatches(t) =>
             (("dead" \in ReasonsOf(r, t)) <=>
                (t.percentDone < Percent(100)
                  /\ t.ageHours >= Hours(config.deadRetentionHours)))

\* an incomplete torrent exactly deadRetentionHours old has reason dead and a
\* complete one past deadRetentionHours has not
C6_Witness ==
  \E r \in Runs :
    /\ \E c \in Range(candidates[r]) :
         /\ c.reason = "dead"
         /\ c.torrent.ageHours = Hours(config.deadRetentionHours)
    /\ \E t \in Range(eligible[r]) :
         /\ t.percentDone = Percent(100)
         /\ t.ageHours >= Hours(config.deadRetentionHours)
         /\ "dead" \notin ReasonsOf(r, t)

\* C7: once the filters have run, the eligible torrents are exactly the
\* hydrated torrents whose label is allowed and that are not tracker-excluded;
\* with an empty allow-list nothing is eligible and no removal is requested;
\* with an empty exclusion list the eligible list is the label-filtered list.
C7_Eligibility ==
  \A r \in Runs :
    /\ stage[r] = "classified" =>
         eligible[r] = SelectSeq(hydrated[r],
                         LAMBDA t : LabelAllowed(t) /\ ~TrackerExcluded(t))
    /\ config.allowedLabels = <<>> =>
         /\ eligible[r] = <<>>
         /\ removeCalls[r] = <<>>
         /\ stage[r] # "labelled"
    /\ (config.excludedTrackers = <<>> /\ pc[r] \in {"removeWait", "done", "failed"}) =>
         /\ eligible[r] = byLabel[r]
         /\ stage[r] # "labelled"

\* the filters have run over a fetch that holds an eligible torrent and a
\* torrent with an allowed label that is tracker-excluded
C7_Witness ==
  \E r \in Runs :
    /\ stage[r] = "classified"
    /\ eligible[r] # <<>>
    /\ \E t \in Range(hydrated[r]) : LabelAllowed(t) /\ TrackerExcluded(t)

\* C8 as stated: once the candidates of a run are known, a dry run has issued
\* no removeTorrents call, and any other run exactly one call whose ID list
\* is the candidate IDs and which asks for the deletion of local data.
C8_OneCallUnlessDryRun ==
  \A r \in Runs :
    stage[r] = "classified" =>
      IF config.dryRun
      THEN removeCalls[r] = <<>>
      ELSE /\ Len(removeCalls[r]) = 1
           /\ removeCalls[r][1].ids = [i \in DOMAIN candidates[r] |->
                                         candidates[r][i].torrent.id]
           /\ removeCalls[r][1].deleteLocalData = TRUE

\* C8 amended: with a dry run or with no candidate no removeTorrents call is
\* issued in the run; with at least one candidate and no dry run exactly one
\* call is issued, its ID list is the candidate IDs, it asks for the deletion
\* of local data, and the request in flight carries those arguments.
C8_OneCallForCandidates ==
  \A r \in Runs :
    /\ stage[r] # "classified" => removeCalls[r] = <<>>
    /\ stage[r] = "classified" =>
         IF config.dryRun \/ candidates[r] = <<>>
         THEN removeCalls[r] = <<>> /\ pc[r] = "done"
         ELSE /\ Len(removeCalls[r]) = 1
              /\ removeCalls[r][1].ids = [i \in DOMAIN candidates[r] |->
                                            candidates[r][i].torrent.id]
              /\ removeCalls[r][1].deleteLocalData = TRUE
              /\ pc[r] = "removeWait" =>
                   /\ req[r] # None
                   /\ req[r][1].method = "torrent-remove"
                   /\ req[r][1].args = removeCalls[r][1]

\* a run without dry run has finished after one call for its two candidates
C8_Witness ==
  \E r \in Runs :
    /\ pc[r] = "done"
    /\ ~config.dryRun
    /\ Len(candidates[r]) = 2
    /\ Len(removeCalls[r]) = 1

\* C9: getTorrents makes at most 30 attempts; a connectivity-class failure
\* on one of the attempts 1 to 29 is followed by the next attempt, a success
\* on any attempt up to the 30th returns the list of that response without
\* an error, and a connectivity-class failure on attempt 30 ends the call
\* with that error, which reaches the caller of Handler.run.
C9_Step ==
  \A r \in Runs :
    /\ attempt[r] <= 30 /\ attempt'[r] <= 30
    /\ pc[r] = "fetchSleep" /\ pc'[r] # "fetchSleep" =>
         pc'[r] = "fetchWait" /\ attempt'[r] = attempt[r] + 1
    /\ pc[r] = "fetchWait" =>
         LET connFail == /\ pc'[r] \in {"fetchSleep", "failed"}
                         /\ isConnectivityMessage(err'[r])
             success == /\ resp'[r] # resp[r]
                        /\ resp'[r].status = 200
                        /\ resp'[r].json
                        /\ resp'[r].result = "success"
                        /\ resp'[r].arguments # None
         IN /\ (connFail /\ attempt[r] < 30) =>
                 pc'[r] = "fetchSleep" /\ attempt'[r] = attempt[r]
            /\ (connFail /\ attempt[r] = 30) =>
                 pc'[r] = "failed" /\ mainPc' = "exit1"
            /\ success =>
                 /\ pc'[r] = "fetched"
                 /\ err'[r] = <<>>
                 /\ LET list == OrList(resp'[r].arguments[1].torrents, <<>>)
                    IN /\ Len(fetched'[r]) = Len(list)
                       /\ \A i \in DOMAIN list : fetched'[r][i].id = list[i].id

C9_FetchRetry == [][C9_Step]_vars

\* the 30th attempt has returned a list
C9_Witness ==
  \E r \in Runs : pc[r] = "fetched" /\ attempt[r] = 30 /\ err[r] = <<>>

\* C10: in getTorrents an error that is not connectivity-class is not
\* retried: the call never waits for a further attempt with such an error.
C10_OtherErrorsNotRetried ==
  \A r \in Runs :
    pc[r] = "fetchSleep" => isConnectivityMessage(err[r])

\* a step in which run r has processed the answer to its request in flight
\* (the answer is resp'[r]; a rejected fetch has status 0)
Responded(r) ==
  /\ pc[r] \in {"fetchWait", "removeWait"}
  /\ (pc'[r] # pc[r] \/ retryCount'[r] # retryCount[r])

\* C11: on a 409, rpc retransmits the same method and arguments with the token
\* of that response (the held token when the response has none), at most 2
\* retransmissions per call; a third consecutive 409 ends the call with the
\* session-negotiation error, which is not a connectivity-class message and
\* gets none of the connectivity log lines.
C11_Step ==
  \A r \in Runs :
    /\ retryCount'[r] <= 2
    /\ (Responded(r) /\ resp'[r].status = 409) =>
         IF retryCount[r] < 2
         THEN /\ pc'[r] = pc[r]
              /\ retryCount'[r] = retryCount[r] + 1
              /\ req'[r] # None
              /\ req'[r][1].method = req[r][1].method
              /\ req'[r][1].args = req[r][1].args
              /\ req'[r][1].token = IF resp'[r].token # None THEN resp'[r].token
                                    ELSE sessionId
              /\ err'[r] = err[r]
         ELSE /\ req'[r] = None
              /\ pc'[r] \in {"fetchSleep", "failed"}
              /\ err'[r] = <<WrapPrefix, NegotiationMessage>>
              /\ ~isConnectivityMessage(err'[r])
              /\ catchOutcome(err'[r], attempt[r]).log = "none"
    /\ (Responded(r) /\ retryCount'[r] = retryCount[r] + 1) =>
         resp'[r].status = 409

C11_SessionNegotiation == [][C11_Step]_vars

\* a removal call has ended with the negotiation error after its second
\* retransmission, which carried the token of the second 409
C11_Witness ==
  \E r \in Runs :
    /\ pc[r] = "failed"
    /\ removeCalls[r] # <<>>
    /\ retryCount[r] = 2
    /\ resp[r].status = 409
    /\ err[r] = <<WrapPrefix, NegotiationMessage>>

\* C13: the held token changes only when a response is processed, and then to
\* the token of that response if it carries one, whatever its status; a held
\* token is never cleared; every request sent carries the token held at the
\* moment of sending, and none when none is held.
C13_Step ==
  /\ sessionId # None => sessionId' # None
  /\ sessionId' # sessionId =>
       \E r \in Runs : Responded(r) /\ resp'[r].token = sessionId'
  /\ \A r \in Runs :
       /\ (Responded(r) /\ resp'[r].token # None) => sessionId' = resp'[r].token
       /\ (Responded(r) /\ resp'[r].token = None) => sessionId' = sessionId
       /\ (req'[r] # None
             /\ <<req[r], retryCount[r], attempt[r], pc[r]>>
                  # <<req'[r], retryCount'[r], attempt'[r], pc'[r]>>) =>
            req'[r][1].token = sessionId'

C13_HeldToken == [][C13_Step]_vars

\* the token delivered by the 200 response of the fetch is held and the
\* first transmission of the removal carries it
C13_Witness ==
  \E r \in Runs :
    /\ pc[r] = "removeWait"
    /\ retryCount[r] = 0
    /\ resp[r].status = 200
    /\ resp[r].token = Some("s2")
    /\ sessionId = Some("s2")
    /\ req[r] # None
    /\ req[r][1].token = Some("s2")

\* C14: a response whose status is neither 2xx nor 409, or a 2xx response
\* whose result is not "success", ends the rpc call with an error whose
\* message holds the status text or the result; the call sends nothing more
\* and returns no payload.
C14_Step ==
  \A r \in Runs :
    Responded(r) =>
      LET a == resp'[r]
          httpError == a.status > 0 /\ a.status # 409
                         /\ ~(a.status >= 200 /\ a.status <= 299)
          rpcError == a.status >= 200 /\ a.status <= 299 /\ a.json
                        /\ a.result # "success"
      IN (httpError \/ rpcError) =>
           /\ req'[r] = None
           /\ retryCount'[r] = retryCount[r]
           /\ pc'[r] \in {"fetchSleep", "failed"}
           /\ fetched'[r] = fetched[r]
           /\ err'[r] # <<>>
           /\ err'[r][1] = WrapPrefix
           /\ httpError => \E i \in DOMAIN err'[r] : err'[r][i] = a.statusText
           /\ rpcError => \E i \in DOMAIN err'[r] : err'[r][i] = a.result

C14_RpcCallFailed == [][C14_Step]_vars

\* a removal call has ended on a response with RPC result "failure"
C14_Witness ==
  \E r \in Runs :
    /\ pc[r] = "failed"
    /\ removeCalls[r] # <<>>
    /\ resp[r].status = 200
    /\ resp[r].result = "failure"
    /\ err[r] = <<WrapPrefix, "RPC error: ", "failure">>

\* C15: a run issues at most one removeTorrents call, sent as one request for
\* all its IDs; only a 409 below the bound retransmits it, with the same IDs;
\* any other answer ends the call, and after a failed removal the run sends
\* no further request.
C15_Step ==
  \A r \in Runs :
    /\ Len(removeCalls'[r]) <= 1
    /\ (pc[r] = "removeWait" /\ Responded(r)) =>
         IF pc'[r] = "removeWait"
         THEN /\ resp'[r].status = 409
              /\ req'[r] # None
              /\ req'[r][1].method = "torrent-remove"
              /\ req'[r][1].args = removeCalls[r][1]
              /\ removeCalls'[r] = removeCalls[r]
         ELSE /\ req'[r] = None
              /\ removeCalls'[r] = removeCalls[r]
              /\ pc'[r] = (IF rpcOutcome(retryCount[r], resp'[r]).kind = "return"
                           THEN "done" ELSE "failed")
              /\ pc'[r] = "failed" => err'[r] # <<>>
    /\ (pc[r] = "failed" /\ removeCalls[r] # <<>>) =>
         (pc'[r] = "failed" => req'[r] = None) /\ pc'[r] # "removeWait"

C15_RemovalNotRetried == [][C15_Step]_vars

\* a removal has failed on a rejected fetch (connectivity class) and the run
\* is over after its single call
C15_Witness ==
  \E r \in Runs :
    /\ pc[r] = "failed"
    /\ Len(removeCalls[r]) = 1
    /\ resp[r].status = 0
    /\ isConnectivityMessage(err[r])
    /\ req[r] = None

\* C12: when a call whose first transmission got a 409 with a token gets a
\* success on the retransmission, that retransmission has carried the token,
\* the call returns the payload and no error appears; the token stays held
\* until a response carrying another one is processed, and the first
\* transmission of every later call, of this run or of a later one, carries
\* the held token.
C12_Step ==
  /\ (\A r \in Runs : ~(Responded(r) /\ resp'[r].token # None)) =>
       sessionId' = sessionId
  /\ \A r \in Runs :
       /\ (Responded(r) /\ retryCount[r] = 1 /\ resp[r].token # None
             /\ rpcOutcome(1, resp'[r]).kind = "return"
             /\ (pc[r] = "fetchWait" => resp'[r].arguments # None)) =>
            /\ resp[r].status = 409
            /\ req[r][1].token = resp[r].token
            /\ err'[r] = <<>>
            /\ pc'[r] = (IF pc[r] = "fetchWait" THEN "fetched" ELSE "done")
            /\ pc[r] = "fetchWait" =>
                 fetched'[r] =
                   toRawTorrents(OrList(resp'[r].arguments[1].torrents, <<>>))
            /\ (resp'[r].token = None /\ sessionId = resp[r].token) =>
                 sessionId' = resp[r].token
       /\ (req'[r] # None /\ req[r] = None) =>
            /\ retryCount'[r] = 0
            /\ sessionId' = sessionId
            /\ req'[r][1].token = sessionId

C16_NoOverlap == Cardinality({r \in Runs : InFlight(r)}) <= 1

\* C17: a scheduled run that fails leaves the process running with the
\* scheduler registered, its error is held by the callback, and once the
\* scheduler is registered the process never exits; while a failed scheduled
\* run is the last thing that happened in a slot, a trigger can start a run.
C17_Step ==
  /\ mainPc = "scheduled" => mainPc' = "scheduled"
  /\ \A r \in Runs :
       (mainPc = "scheduled" /\ InFlight(r) /\ pc'[r] = "failed") =>
         /\ mainPc' = "scheduled"
         /\ err'[r] # <<>>
         /\ \A q \in Runs \ {r} : pc'[q] = pc[q] /\ req'[q] = req[q]

C17_TriggerEnabled ==
  (mainPc = "scheduled" /\ \E r \in Runs : pc[r] = "failed") =>
    ENABLED (\E r \in Runs : CronTick(r))

C17_ScheduledFailureCaught == [][C17_Step]_vars /\ []C17_TriggerEnabled

\* two scheduled runs have failed and the scheduler is still registered
C17_Witness ==
  /\ mainPc = "scheduled"
  /\ \A r \in Runs : pc[r] = "failed"

\* C18: an unset or empty SCHEDULE gives a Config without schedule; without
\* a schedule the process makes one run and exits 0 when it succeeds; a first
\* run that fails exits 1 and no other run ever starts; an ended process takes
\* no step; with the scheduler registered no failure ends the process.
C18_Step ==
  /\ mainPc \notin {"exit0", "exit1", "crashed"}
  /\ (mainPc = "firstRun" /\ pc'[1] = "failed") => mainPc' = "exit1"
  /\ (mainPc = "firstRun" /\ pc'[1] = "done") =>
       mainPc' = (IF env.SCHEDULE \in {None, Some(<<>>)} THEN "exit0"
                  ELSE "scheduled")
  /\ mainPc' \in {"exit0", "exit1"} => mainPc = "firstRun"
  /\ mainPc = "scheduled" => mainPc' = "scheduled"
  /\ mainPc # "scheduled" => \A r \in Runs : r # 1 => pc'[r] = "idle"

C18_Exits ==
  /\ env.SCHEDULE \in {None, Some(<<>>)} => config.schedule = None
  /\ mainPc = "exit0" =>
       /\ config.schedule = None
       /\ pc[1] = "done"
       /\ \A r \in Runs : r # 1 => pc[r] = "idle"
  /\ mainPc = "exit1" =>
       /\ pc[1] = "failed"
       /\ \A r \in Runs : r # 1 => pc[r] = "idle"
  /\ mainPc = "scheduled" => config.schedule # None

InvalidEnv(e) ==
  \/ e.TRANSMISSION_URL = None
  \/ ~parseURL(e.TRANSMISSION_URL[1]).ok
  \/ (e.TRANSMISSION_AUTH # None /\ ~arrayIncludes(e.TRANSMISSION_AUTH[1], ":"))
  \/ e.ALLOWED_LABELS = None
  \/ e.EXCLUDED_TRACKERS = None
  \/ \E v \in {e.MAX_RATIO, e.DEAD_RETENTION_HOURS, e.MAX_AGE_HOURS} :
       v = None \/ toNumber(v[1]) <= 0

\* C19: under an invalid configuration no run begins and no request is ever
\* sent.
C19_InvalidConfigNeverRuns ==
  InvalidEnv(env) =>
    /\ mainPc \notin {"firstRun", "scheduled", "exit0"}
    /\ \A r \in Runs : pc[r] = "idle" /\ req[r] = None

\* C20: every field of a torrent the run works on holds a value, and no run
\* fails before its removal because a field was null at the source.
C20_EveryFieldDefaulted ==
  \A r \in Runs :
    /\ stage[r] # "none" =>
         \A i \in DOMAIN fetched[r] :
           fetched[r][i].name # None /\ hydrated[r][i].name # None
    /\ (pc[r] = "failed" /\ removeCalls[r] = <<>>) =>
         \E i \in DOMAIN hydrated[r] :
           \E u \in Range(hydrated[r][i].trackerUrls) : u # <<>> /\ ~parseURL(u).ok

\* the labels the README names as the default of ALLOWED_LABELS
sRadarr == <<"r", "a", "d", "a", "r", "r">>
sSonarr == <<"s", "o", "n", "a", "r", "r">>

\* C21: once the configuration has been loaded, an unset ALLOWED_LABELS has
\* given the allow-list (radarr, sonarr) without ending the process, and an
\* empty ALLOWED_LABELS has given the empty allow-list.
C21_AllowedLabelsDefault ==
  mainPc # "boot" =>
    /\ env.ALLOWED_LABELS = None =>
         /\ mainPc # "crashed"
         /\ config.allowedLabels = <<sRadarr, sSonarr>>
    /\ (env.ALLOWED_LABELS = Some(<<>>) /\ loadConfig(env).ok) =>
         config.allowedLabels = <<>>

\* seg is the last path segment of dir: what lies between the last slash
\* that is followed by a segment and the trailing slashes
IsLastSegment(seg, dir) ==
  \E a, b \in 0..Len(dir) :
    /\ a <= b
    /\ seg = SubSeq(dir, a + 1, b)
    /\ \A k \in (a + 1)..b : dir[k] # "/"
    /\ \A k \in (b + 1)..Len(dir) : dir[k] = "/"
    /\ a = 0 \/ dir[a] = "/"
    /\ a = b => \A k \in 1..Len(dir) : dir[k] = "/"

InByLabel(r, t) == \E b \in Range(byLabel[r]) : b.id = t.id

\* C22: the label of a hydrated torrent is the first entry of its label list,
\* or the last path segment of its download directory when the list is
\* empty; the allow-list is lower-case, and a torrent passes the label filter
\* exactly when its lower-cased label is an entry of it, so a torrent whose
\* first label is not allowed is never eligible nor removed.
C22_OneLabel ==
  \A r \in Runs :
    /\ stage[r] # "none" =>
         \A i \in DOMAIN fetched[r] :
           IF fetched[r][i].labels # <<>>
           THEN hydrated[r][i].label = fetched[r][i].labels[1]
           ELSE IsLastSegment(hydrated[r][i].label, fetched[r][i].downloadDir)
    /\ \A a \in Range(config.allowedLabels) : toLowerCase(a) = a
    /\ stage[r] \in {"labelled", "classified"} =>
         \A t \in Range(hydrated[r]) :
           /\ InByLabel(r, t) <=> toLowerCase(t.label) \in Range(config.allowedLabels)
           /\ toLowerCase(t.label) \notin Range(config.allowedLabels) =>
                /\ t \notin Range(eligible[r])
                /\ t.id \notin RemovedIds(r)

\* the label filter has run under an allow-list that holds tv: a torrent
\* labelled (other, tv) did not pass, a torrent labelled TV did, and a removal
\* was requested
C22_Witness ==
  \E r \in Runs :
    /\ stage[r] = "classified"
    /\ config.allowedLabels = <<sTv>>
    /\ removeCalls[r] # <<>>
    /\ \E i, j \in DOMAIN fetched[r] :
         /\ fetched[r][i].labels = <<sOther, sTv>>
         /\ ~InByLabel(r, hydrated[r][i])
         /\ fetched[r][j].labels = <<sTvUpper>>
         /\ InByLabel(r, hydrated[r][j])

WellFormed(t) == \A u \in Range(t.trackerUrls) : parseURL(u).ok

HostHoldsToken(t) ==
  \E u \in Range(t.trackerUrls), k \in Range(config.excludedTrackers) :
    includes(toLowerCase(parseURL(u).hostname), toLowerCase(k))

\* C23: once the filters have run, a torrent that passed the label filter and
\* whose announce URLs are all well-formed is missing from the eligible list
\* exactly when one of its hostnames contains an excluded-tracker token,
\* whatever the case of either; a token in the path or port excludes nothing.
C23_HostnameExclusion ==
  \A r \in Runs :
    stage[r] = "classified" =>
      \A t \in Range(byLabel[r]) :
        WellFormed(t) => (t \notin Range(eligible[r]) <=> HostHoldsToken(t))

\* the filters have run under the exclusion list (b): a torrent whose tracker
\* holds b in port and path only is eligible, a torrent with the tracker
\* host gB is not
C23_Witness ==
  \E r \in Runs :
    /\ stage[r] = "classified"
    /\ config.excludedTrackers = <<sBad>>
    /\ \E t \in Range(eligible[r]) : urlBadPath \in Range(t.trackerUrls)
    /\ \E t \in Range(byLabel[r]) :
         /\ urlBadHost \in Range(t.trackerUrls)
         /\ WellFormed(t)
         /\ t \notin Range(eligible[r])

\* the response a successful torrent-get leaves behind
FetchSucceeded(r) ==
  /\ resp[r].status = 200
  /\ resp[r].json
  /\ resp[r].result = "success"
  /\ resp[r].arguments # None

\* C24: a run enters getTorrents once, at its start, and never again; a step
\* that issues a removeTorrents call is taken after the fetch has returned a
\* list, and it leaves every eligible torrent classified: the candidates are
\* the eligible torrents that match a rule, and the call carries their IDs.
C24_Step ==
  \A r \in Runs :
    /\ (pc[r] # "fetchWait" /\ pc'[r] = "fetchWait") =>
         pc[r] \in {"idle", "fetchSleep"}
    /\ pc[r] \in {"fetched", "removeWait", "done", "failed"} =>
         pc'[r] \notin {"idle", "fetchWait", "fetchSleep"}
    /\ removeCalls'[r] # removeCalls[r] =>
         /\ pc[r] = "fetched"
         /\ FetchSucceeded(r)
         /\ removeCalls[r] = <<>>
         /\ stage'[r] = "classified"
         /\ \A t \in Range(eligible'[r]) :
              NoRuleMatches(t) <=> \A c \in Range(candidates'[r]) : c.torrent # t
         /\ removeCalls'[r] = <<RemoveArgs(candidateIds(candidates'[r]), TRUE)>>

\* a run whose fetch failed has classified nothing and issued no removal call
C24_FailedFetch ==
  \A r \in Runs :
    /\ (pc[r] = "failed" /\ stage[r] = "none") =>
         /\ ~FetchSucceeded(r)
         /\ fetched[r] = <<>>
         /\ removeCalls[r] = <<>>
    /\ pc[r] \in {"idle", "fetchWait", "fetchSleep", "fetched"} =>
         stage[r] = "none" /\ removeCalls[r] = <<>>
    /\ removeCalls[r] # <<>> => stage[r] = "classified"

C24_SinglePass == [][C24_Step]_vars /\ []C24_FailedFetch

\* a run has ended after its removal call, issued for a fetch of two eligible
\* torrents of which one matches no rule
C24_Witness ==
  \E r \in Runs :
    /\ pc[r] = "done"
    /\ Len(removeCalls[r]) = 1
    /\ Len(eligible[r]) = 2
    /\ \E t \in Range(eligible[r]) : NoRuleMatches(t)

\* a step that ends getTorrents with the error of a refused connection
RaisedUnreachable(r) ==
  /\ pc[r] = "fetchWait"
  /\ pc'[r] = "failed"
  /\ resp'[r].status = 0

\* C25: an invocation of getTorrents whose requests are answered returns or
\* raises; it never makes more than 30 attempts nor more than two
\* retransmissions in one attempt, every wait is followed by the next
\* attempt, and an unreachable daemon makes it raise on the 30th attempt and
\* on no other.
C25_Step ==
  \A r \in Runs :
    /\ attempt'[r] <= MaxAttempts
    /\ retryCount'[r] <= MaxSessionRetries
    /\ (pc[r] = "fetchWait" /\ pc'[r] = "fetchWait") =>
         retryCount'[r] = retryCount[r] + 1 /\ attempt'[r] = attempt[r]
    /\ (pc[r] = "fetchSleep" /\ pc'[r] = "fetchWait") =>
         attempt'[r] = attempt[r] + 1
    /\ RaisedUnreachable(r) => attempt[r] = MaxAttempts
    /\ (pc[r] = "fetchWait" /\ resp'[r].status = 0 /\ attempt[r] < MaxAttempts) =>
         pc'[r] = "fetchSleep"

C25_Returns ==
  \A r \in Runs : pc[r] \in {"fetchWait", "fetchSleep"} ~> pc[r] \in {"fetched", "failed"}

C25_GetTorrentsTerminates == [][C25_Step]_vars /\ C25_Returns

\* getTorrents has raised on its 30th attempt in front of a daemon that
\* refused the connection
C25_Witness ==
  \E r \in Runs :
    /\ pc[r] = "failed"
    /\ attempt[r] = MaxAttempts
    /\ resp[r].status = 0
    /\ stage[r] = "none"

\* a step in which run r has caught a connectivity-class error in getTorrents
ConnectivityFailure(r) ==
  /\ pc[r] = "fetchWait"
  /\ pc'[r] \in {"fetchSleep", "failed"}
  /\ isConnectivityMessage(err'[r])

\* C26: what getTorrents logs.  A connectivity failure on attempt 1 writes
\* one connecting notice, on the attempts 2 to 29 nothing, on attempt 30 one
\* failure line before the error is raised; a list returned on attempt 1
\* writes the fetched summary, a list returned on a later attempt the
\* connected line with the number of that attempt; both name the number of
\* torrents.  A retransmission and the end of a wait write nothing.
C26_Step ==
  \A r \in Runs :
    /\ ConnectivityFailure(r) =>
         /\ attempt[r] = 1 => log'[r] = <<LogLine("connecting", 1, 0)>>
         /\ attempt[r] \in 2..(MaxAttempts - 1) => log'[r] = <<>>
         /\ attempt[r] = MaxAttempts =>
              /\ log'[r] = <<LogLine("failed", MaxAttempts, 0)>>
              /\ pc'[r] = "failed"
    /\ (pc[r] = "fetchWait" /\ pc'[r] = "fetched") =>
         log'[r] = <<LogLine(IF attempt[r] = 1 THEN "fetched" ELSE "connected",
                            attempt[r], Len(fetched'[r]))>>
    /\ (pc[r] \in {"fetchWait", "fetchSleep"} /\ pc'[r] = "fetchWait") =>
         log'[r] = <<>>

C26_LogSequence == [][C26_Step]_vars

\* the 30th attempt has returned a list of two torrents and written the
\* connected line
C26_Witness ==
  \E r \in Runs :
    /\ pc[r] = "fetched"
    /\ log[r] = <<LogLine("connected", MaxAttempts, 2)>>

\* the removal call a Handler with the history firstRun issues for a list
CallOf(firstRun, torrents, now) ==
  LET res == runAfterFetch(config, firstRun, torrents, now)
  IN IF res.outcome = "remove"
     THEN <<RemoveArgs(candidateIds(res.candidates), TRUE)>>
     ELSE <<>>

\* C27: when a run resumes with its fetched list, it fails or goes on, and
\* issues the removal call, exactly as a Handler with any other run history
\* does for the same list, configuration and time.
C27_Step ==
  \A r \in Runs :
    (pc[r] = "fetched" /\ pc'[r] # "fetched") =>
      \A now \in Nows, firstRun \in BOOLEAN :
        /\ pc'[r] = "failed" <=>
             runAfterFetch(config, firstRun, fetched[r], now).outcome = "throw"
        /\ removeCalls'[r] = CallOf(firstRun, fetched[r], now)

C27_HistoryIndependent == [][C27_Step]_vars

\* C28: a run whose candidate list is empty issues no removeTorrents call and
\* has no request in flight, with and without dryRun; no removeTorrents call
\* and no torrent-remove request carries an empty ID list.
C28_NoEmptyRemoval ==
  \A r \in Runs :
    /\ (stage[r] = "classified" /\ candidates[r] = <<>>) =>
         /\ removeCalls[r] = <<>>
         /\ req[r] = None
         /\ pc[r] = "done"
    /\ \A i \in DOMAIN removeCalls[r] : removeCalls[r][i].ids # <<>>
    /\ (req[r] # None /\ req[r][1].method = "torrent-remove") =>
         req[r][1].args.ids # <<>>

\* a run without dryRun has ended without a call: it held eligible torrents
\* and none of them matched a rule
C28_Witness ==
  \E r \in Runs :
    /\ stage[r] = "classified"
    /\ ~config.dryRun
    /\ eligible[r] # <<>>
    /\ candidates[r] = <<>>
    /\ pc[r] = "done"
    /\ removeCalls[r] = <<>>

\* C29: hasExcludedTracker yields a boolean for every torrent that passed
\* the label filter, and no run stops between the label filter and the
\* classification.
C29_FilterTotal ==
  \A r \in Runs :
    /\ stage[r] # "none" =>
         \A t \in Range(hydrated[r]) :
           isAllowedLabel(config, t) =>
             hasExcludedTracker(config, t) \in {"true", "false"}
    /\ stage[r] # "labelled"
    /\ pc[r] = "failed" => err[r] # <<"Invalid URL">>

\* C30: under deadRetentionHours <= maxAgeHours every candidate with reason
\* ttl is complete, and every eligible incomplete torrent that is old enough
\* for the TTL rule is a candidate with reason ratio or dead.
C30_TtlOnlyForComplete ==
  \A r \in Runs :
    config.deadRetentionHours <= config.maxAgeHours =>
      /\ \A c \in Range(candidates[r]) :
           c.reason = "ttl" => c.torrent.percentDone >= Percent(100)
      /\ stage[r] = "classified" =>
           \A t \in Range(eligible[r]) :
             (t.percentDone < Percent(100) /\ TtlMatches(t)) =>
               /\ ReasonsOf(r, t) # {}
               /\ ReasonsOf(r, t) \subseteq {"ratio", "dead"}

\* under deadRetentionHours <= maxAgeHours an incomplete torrent old enough
\* for the TTL rule was reported as dead, and a complete one as ttl
C30_Witness ==
  \E r \in Runs :
    /\ stage[r] = "classified"
    /\ config.deadRetentionHours <= config.maxAgeHours
    /\ \E c \in Range(candidates[r]) :
         /\ c.torrent.percentDone < Percent(100)
         /\ TtlMatches(c.torrent)
         /\ c.reason = "dead"
    /\ \E c \in Range(candidates[r]) :
         /\ c.torrent.percentDone >= Percent(100)
         /\ c.reason = "ttl"

\* a step in which a run of Handler.run begins in slot r
RunBegins(r) == ~InFlight(r) /\ pc'[r] = "fetchWait"

\* C31: the scheduler is registered by the step that ends the first run with
\* success, at a moment when no run is in flight; a run begins either as the
\* first run of the process, with no other run begun, or with the scheduler
\* registered.
C31_Step ==
  /\ (mainPc # "scheduled" /\ mainPc' = "scheduled") =>
       /\ mainPc = "firstRun"
       /\ InFlight(1)
       /\ pc'[1] = "done"
       /\ \A r \in Runs : pc'[r] \in {"idle", "done"}
  /\ \A r \in Runs :
       RunBegins(r) =>
         \/ mainPc = "scheduled"
         \/ /\ mainPc = "start"
            /\ r = 1
            /\ \A q \in Runs : pc[q] = "idle"

\* while the first run is in flight it is the only run and no trigger can
\* start another; after a failed first run no run was ever scheduled and
\* none can be
C31_NoTrigger ==
  /\ mainPc = "firstRun" =>
       /\ InFlight(1)
       /\ \A r \in Runs : r # 1 => pc[r] = "idle"
  /\ mainPc = "exit1" =>
       /\ pc[1] = "failed"
       /\ \A r \in Runs : r # 1 => pc[r] = "idle"
  /\ mainPc # "scheduled" => ~ENABLED (\E r \in Runs : CronTick(r))

C31_FirstRunAlone == [][C31_Step]_vars /\ []C31_NoTrigger

\* the first scheduled run is in flight: it took the slot the first run left
\* behind, and no other run has begun
C31_Witness ==
  /\ mainPc = "scheduled"
  /\ InFlight(1)
  /\ \A r \in Runs : r # 1 => pc[r] = "idle"

\* the JSON list run r fetched, while its response is still the last one of
\* the run
SourceList(r) ==
  IF resp[r].result = "success" /\ resp[r].arguments # None
       /\ resp[r].arguments[1].torrents # None
       /\ Len(resp[r].arguments[1].torrents[1]) = Len(fetched[r])
  THEN resp[r].arguments[1].torrents[1]
  ELSE <<>>

\* C32: a torrent whose addedDate is null at the source has addedDate 0 in
\* the fetched list and the time since the epoch as its age; if it is eligible
\* and maxAgeHours does not exceed that age, it matches the TTL rule, is a
\* candidate of the run, and its ID is in the removal call once the call is
\* issued.
C32_EpochAge ==
  \A r \in Runs :
    \A i \in DOMAIN SourceList(r) :
      SourceList(r)[i].addedDate = None =>
        /\ fetched[r][i].addedDate = 0
        /\ stage[r] # "none" =>
             /\ hydrated[r][i].ageHours \in Nows
             /\ (/\ stage[r] = "classified"
                 /\ hydrated[r][i] \in Range(eligible[r])
                 /\ Hours(config.maxAgeHours) <= hydrated[r][i].ageHours) =>
                  /\ TtlMatches(hydrated[r][i])
                  /\ ReasonsOf(r, hydrated[r][i]) # {}
                  /\ removeCalls[r] # <<>> =>
                       hydrated[r][i].id \in RemovedIds(r)

\* a removal was requested for an eligible torrent without addedDate that
\* matches the TTL rule only
C32_Witness ==
  \E r \in Runs :
    /\ pc[r] = "removeWait"
    /\ \E i \in DOMAIN SourceList(r) :
         /\ SourceList(r)[i].addedDate = None
         /\ ReasonsOf(r, hydrated[r][i]) = {"ttl"}
         /\ hydrated[r][i].id \in RemovedIds(r)

====
